---- MODULE Spec2Model ----
(***************************************************************************)
(* Token amount utilities (src/unnamed/part_000, "Chapter 7: Token Amount  *)
(* Utilities"): convertWeiToTokens, convertTokensToWei,                    *)
(* shortenValueWithSuffix and formatTokensToReadableValue, together with   *)
(* the part of bignumber.js they call.                                     *)
(*                                                                         *)
(* A BigNumber is modelled the way bignumber.js stores it: a sign s, a     *)
(* coefficient and an exponent.  The coefficient is the integer m (without *)
(* trailing zeros) and e is the power of ten of its last digit, so the     *)
(* value is s * m * 10^e.  c tells a finite value from NaN and Infinity    *)
(* (coefficient null in the library).  Strings are sequences of one-       *)
(* character strings, so that parsing and formatting are computed digit by *)
(* digit.                                                                  *)
(*                                                                         *)
(* The concurrency examples of the repository follow: the Mutex, the       *)
(* Semaphore, withMutex and acquireWithTimeout of                          *)
(* docs/performance-concurrency/web-workers.md, throttle and debounce of   *)
(* throttle-debounce.md, and the demo pages (mutex patterns, throttle and  *)
(* debounce, web workers, data batching).  Each part has its own variables *)
(* and its own specification; the variables of the other parts stay at     *)
(* their initial value.                                                    *)
(***************************************************************************)
EXTENDS Integers, Sequences, FiniteSets, TLC

VARIABLES
    \* one call of a token amount utility: its arguments, which one, its result
    input, token, addSymbolArg, op, out,
    \* several callers of the utilities: the shared arguments and each call
    amount, asset, calls,
    \* Mutex: its fields and where each caller is
    \* (next: the waiter the last release() took from the queue, 0 for none)
    locked, queue, next, mpc,
    \* Semaphore: constructor argument, its fields and where each caller is
    size, permits, squeue, spc,
    \* MutexPatternsPage: React state, the state the last render saw, and
    \* the invocations of incrementSharedCounter
    sharedCounter, isUpdating, renderedIsUpdating, inFlight, passed,
    \* withMutex and acquireWithTimeout: where each caller's call is and what it returned
    wcall,
    \* throttle and debounce: clock, delay argument, pending timers, the closures' timeoutId and lastCall, the calls made and the calls of func; the logs of the demo page
    now, delay, timers, timeoutId, nextId, lastCall, history, invoked, normalLog, throttledLog,
    \* WebWorkersPage: React state, whether the page is mounted, and the workers made so far
    mounted, isCalculating, workerResult, workers,
    \* DataBatchingPage: React state, the buffer of the effect, the state updates not yet rendered, the time of the last data tick and of the last flush
    isSimulating, directData, batchedData, tempData, updates, elapsed, flushedAt

amountVars == <<input, token, addSymbolArg, op, out>>

callVars == <<amount, asset, calls>>

mutexVars == <<locked, queue, next, mpc>>

semVars == <<size, permits, squeue, spc>>

pageVars == <<sharedCounter, isUpdating, renderedIsUpdating, inFlight, passed>>

lockVars == <<wcall>>

timerVars == <<now, delay, timers, timeoutId, nextId, lastCall, history, invoked, normalLog, throttledLog>>

workerVars == <<mounted, isCalculating, workerResult, workers>>

batchVars == <<isSimulating, directData, batchedData, tempData, updates, elapsed, flushedAt>>

vars == <<amountVars, callVars, mutexVars, semVars, pageVars, lockVars, timerVars, workerVars, batchVars>>

(* ---------------- bounds of the explored inputs ---------------- *)

\* largest exponent of an input amount: amounts reach 9999995 * 10^MaxExp
MaxExp == 19

\* most negative exponent of an input amount is -MaxScale
MaxScale == 25

\* number of callers that use the token amount utilities at the same time
NCallSites == 2

\* number of callers of the Mutex and of the Semaphore
NCallers == 4

\* largest number of permits a Semaphore is constructed with
MaxPermits == 2

\* number of clicks on the demo page that are followed
MaxClicks == 8

\* the clock of the throttle and debounce examples runs for MaxTime ticks
MaxTime == 7

\* number of calls of a throttled or debounced function that are followed
MaxCalls == 4

\* largest delay argument, in ticks of the clock
MaxDelay == 3

\* number of Worker objects the web-workers page makes that are followed
MaxWorkers == 4

\* the countTo of a job: the loop of the worker is followed for MaxCount
\* rounds (the page posts 1000000000)
MaxCount == 3

\* coefficients of the input amounts (none has trailing zeros, as in the library)
Mantissas == {0, 1, 5, 15, 105, 755, 999, 1005, 1499, 4995, 999999, 9999995}

\* the data-batching page is followed for MaxElapsed ms of one simulation
MaxElapsed == 1050

(* ---------------- bignumber.js configuration defaults ---------------- *)

DECIMAL_PLACES == 20

ROUND_UP == 0

ROUND_DOWN == 1

ROUND_HALF_UP == 4

ROUNDING_MODE == ROUND_HALF_UP

GROUP_SIZE == 3

(* ---------------- small arithmetic helpers ---------------- *)

RECURSIVE Pow10(_)
Pow10(k) == IF k <= 0 THEN 1 ELSE 10 * Pow10(k - 1)

RECURSIVE NumDigits(_)
NumDigits(m) == IF m < 10 THEN 1 ELSE 1 + NumDigits(m \div 10)

RECURSIVE StripZeros(_, _)
StripZeros(m, e) ==
    IF m = 0 THEN [m |-> 0, e |-> 0]
    ELSE IF m % 10 = 0 THEN StripZeros(m \div 10, e + 1)
    ELSE [m |-> m, e |-> e]

(* ---------------- BigNumber values ---------------- *)

\* a finite BigNumber s * m * 10^e, normalised as the library keeps it
BN(s, m, e) ==
    LET n == StripZeros(m, e)
    IN  [type |-> "BigNumber", c |-> "finite", s |-> s, m |-> n.m, e |-> n.e]

NaN == [type |-> "BigNumber", c |-> "NaN", s |-> 1, m |-> 0, e |-> 0]

Infinity(s) == [type |-> "BigNumber", c |-> "Infinity", s |-> s, m |-> 0, e |-> 0]

IsBigNumber(v) == v.type = "BigNumber"

isNaN(x) == x.c = "NaN"

isFinite(x) == x.c = "finite"

isZero(x) == x.c = "finite" /\ x.m = 0

\* new BigNumber(n) for a JavaScript number literal n >= 0 of the source
FromNumber(n) == BN(1, n, 0)

\* new BigNumber(10).pow(decimals)
TenPow(decimals) == BN(1, 1, decimals)

\* an absoluteValue that leaves the sign
absoluteValue_Identity(x) == x

absoluteValue(x) == [x EXCEPT !.s = 1]

\* position of the leading digit: the value is in [10^(k-1), 10^k) for k = Magnitude
Magnitude(x) == NumDigits(x.m) + x.e

\* compare the absolute values of two finite non-zero numbers: -1, 0 or 1
CompareAbs(x, y) ==
    IF Magnitude(x) # Magnitude(y)
    THEN (IF Magnitude(x) < Magnitude(y) THEN -1 ELSE 1)
    ELSE LET dx == NumDigits(x.m)
             dy == NumDigits(y.m)
             w  == IF dx > dy THEN dx ELSE dy
             ax == x.m * Pow10(w - dx)
             ay == y.m * Pow10(w - dy)
         IN  IF ax < ay THEN -1 ELSE IF ax > ay THEN 1 ELSE 0

\* BigNumber compare(x, y): "NaN" when either is NaN, else -1, 0 or 1
compare(x, y) ==
    IF isNaN(x) \/ isNaN(y) THEN 2
    ELSE IF x.c = "Infinity" \/ y.c = "Infinity"
    THEN (IF x.c = y.c
          THEN (IF x.s = y.s THEN 0 ELSE IF x.s < y.s THEN -1 ELSE 1)
          ELSE IF x.c = "Infinity" THEN x.s ELSE 0 - y.s)
    ELSE IF isZero(x) \/ isZero(y)
    THEN (IF isZero(x) /\ isZero(y) THEN 0
          ELSE IF isZero(x) THEN 0 - y.s ELSE x.s)
    ELSE IF x.s # y.s THEN x.s
    ELSE x.s * CompareAbs(x, y)

isEqualTo(x, y) == compare(x, y) = 0

isLessThan(x, y) == compare(x, y) = -1

isGreaterThanOrEqualTo(x, y) == compare(x, y) \in {0, 1}

\* round a finite x to dp decimal places with rounding mode rm
round(x, dp, rm) ==
    IF ~isFinite(x) \/ x.e >= 0 - dp THEN x
    ELSE LET k    == (0 - dp) - x.e
             nd   == NumDigits(x.m)
             far  == k > nd
             p    == IF far THEN 1 ELSE Pow10(k)
             q    == IF far THEN 0 ELSE x.m \div p
             rem  == IF far THEN 0 ELSE x.m % p
             more == x.m # 0 /\ (far \/ rem # 0)
             up   == CASE rm = ROUND_UP      -> more
                      [] rm = ROUND_DOWN    -> FALSE
                      [] rm = ROUND_HALF_UP -> ~far /\ 2 * rem >= p
                      [] OTHER              -> FALSE
             n    == StripZeros(IF up THEN q + 1 ELSE q, 0 - dp)
         IN  [x EXCEPT !.m = n.m, !.e = n.e]

\* a decimalPlaces that drops the excess digits (ROUND_DOWN)
decimalPlaces_Truncating(x, dp) == round(x, dp, ROUND_DOWN)

\* x.decimalPlaces(dp), alias x.dp(dp)
decimalPlaces(x, dp) == round(x, dp, ROUNDING_MODE)

\* x.multipliedBy(y): exact, never rounded
multipliedBy(x, y) ==
    IF isNaN(x) \/ isNaN(y) THEN NaN
    ELSE IF ~isFinite(x) \/ ~isFinite(y)
    THEN (IF isZero(x) \/ isZero(y) THEN NaN ELSE Infinity(x.s * y.s))
    ELSE LET n == StripZeros(x.m * y.m, x.e + y.e)
         IN  [type |-> "BigNumber", c |-> "finite", s |-> x.s * y.s,
              m |-> n.m, e |-> n.e]

\* x.dividedBy(y) for a divisor y that is a power of ten (every divisor of the
\* source is one): the quotient is rounded to DECIMAL_PLACES with ROUNDING_MODE
dividedBy(x, y) ==
    IF isNaN(x) \/ isNaN(y) THEN NaN
    ELSE IF ~isFinite(x) THEN x
    ELSE LET n == StripZeros(x.m, x.e - y.e)
         IN  round([x EXCEPT !.m = n.m, !.e = n.e], DECIMAL_PLACES, ROUNDING_MODE)

(* ---------------- strings: parsing and formatting ---------------- *)

DigitChars == <<"0", "1", "2", "3", "4", "5", "6", "7", "8", "9">>

IsDigit(ch) == \E i \in 1..10 : DigitChars[i] = ch

DigitVal(ch) == (CHOOSE i \in 1..10 : DigitChars[i] = ch) - 1

Str(chars) == [type |-> "string", chars |-> chars]

RECURSIVE Zeros(_)
Zeros(n) == IF n <= 0 THEN <<>> ELSE <<"0">> \o Zeros(n - 1)

RECURSIVE Digits(_)
Digits(m) ==
    IF m < 10 THEN <<DigitChars[m + 1]>>
    ELSE Digits(m \div 10) \o <<DigitChars[(m % 10) + 1]>>

RECURSIVE DigitsToNat(_)
DigitsToNat(ds) ==
    IF ds = <<>> THEN 0
    ELSE 10 * DigitsToNat(SubSeq(ds, 1, Len(ds) - 1)) + DigitVal(ds[Len(ds)])

AllDigits(ds) == \A i \in 1..Len(ds) : IsDigit(ds[i])

\* an isNumeric that lets the empty string through (it then reads as 0)
IsNumeric_AllowsEmpty(body) ==
    LET dots == {i \in 1..Len(body) : body[i] = "."}
    IN  /\ Cardinality(dots) <= 1
        /\ IF dots = {} THEN AllDigits(body)
           ELSE LET d == CHOOSE i \in dots : TRUE
                IN  /\ AllDigits(SubSeq(body, 1, d - 1))
                    /\ AllDigits(SubSeq(body, d + 1, Len(body)))

\* the library's isNumeric pattern  -?(\d+(\.\d*)?|\.\d+)  on the unsigned part
IsNumeric(body) ==
    LET dots == {i \in 1..Len(body) : body[i] = "."}
    IN  /\ Len(body) > 0
        /\ Cardinality(dots) <= 1
        /\ IF dots = {} THEN AllDigits(body)
           ELSE LET d == CHOOSE i \in dots : TRUE
                    ip == SubSeq(body, 1, d - 1)
                    fp == SubSeq(body, d + 1, Len(body))
                IN  /\ AllDigits(ip) /\ AllDigits(fp)
                    /\ Len(ip) + Len(fp) > 0

\* new BigNumber(str) for a string: NaN (no exception) when str is not numeric
BigNumberFromString(chars) ==
    LET neg  == Len(chars) > 0 /\ chars[1] = "-"
        body == IF neg THEN SubSeq(chars, 2, Len(chars)) ELSE chars
        s    == IF neg THEN -1 ELSE 1
    IN  IF body = <<"I", "n", "f", "i", "n", "i", "t", "y">> THEN Infinity(s)
        ELSE IF ~IsNumeric(body) THEN NaN
        ELSE LET dots == {i \in 1..Len(body) : body[i] = "."}
                 d    == IF dots = {} THEN Len(body) + 1
                         ELSE CHOOSE i \in dots : TRUE
                 ip   == SubSeq(body, 1, d - 1)
                 fp   == SubSeq(body, d + 1, Len(body))
             IN  BN(s, DigitsToNat(ip \o fp), 0 - Len(fp))

\* an integer part that is left empty for amounts below 1 (".50")
IntegerDigits_NoLeadingZero(x) ==
    LET ds == Digits(x.m)
        n  == Len(ds)
    IN  IF x.m = 0 THEN <<>>
        ELSE IF x.e >= 0 THEN ds \o Zeros(x.e)
        ELSE IF 0 - x.e >= n THEN <<>>
        ELSE SubSeq(ds, 1, n + x.e)

\* the integer part of a finite x >= 0 in normal notation, as digits
IntegerDigits(x) ==
    LET ds == Digits(x.m)
        n  == Len(ds)
    IN  IF x.m = 0 THEN <<"0">>
        ELSE IF x.e >= 0 THEN ds \o Zeros(x.e)
        ELSE IF 0 - x.e >= n THEN <<"0">>
        ELSE SubSeq(ds, 1, n + x.e)

\* the fractional part of a finite x >= 0 in normal notation, as digits
FractionDigits(x) ==
    LET ds == Digits(x.m)
        n  == Len(ds)
    IN  IF x.m = 0 \/ x.e >= 0 THEN <<>>
        ELSE IF 0 - x.e >= n THEN Zeros((0 - x.e) - n) \o ds
        ELSE SubSeq(ds, n + x.e + 1, n)

\* a grouping that puts no separator
Grouped_None(ds) == ds

\* FORMAT.groupSeparator "," every FORMAT.groupSize digits, from the right
RECURSIVE Grouped(_)
Grouped(ds) ==
    IF Len(ds) <= GROUP_SIZE THEN ds
    ELSE Grouped(SubSeq(ds, 1, Len(ds) - GROUP_SIZE)) \o <<",">>
         \o SubSeq(ds, Len(ds) - GROUP_SIZE + 1, Len(ds))

SignChars(x) == IF x.s < 0 /\ x.m # 0 THEN <<"-">> ELSE <<>>

NonFiniteChars(x) ==
    IF isNaN(x) THEN <<"N", "a", "N">>
    ELSE (IF x.s < 0 THEN <<"-">> ELSE <<>>) \o <<"I", "n", "f", "i", "n", "i", "t", "y">>

\* x.toFormat(): normal notation, not rounded, no padding of the fraction
toFormat(x) ==
    IF ~isFinite(x) THEN NonFiniteChars(x)
    ELSE LET fr == FractionDigits(x)
         IN  SignChars(x) \o Grouped(IntegerDigits(x))
             \o (IF fr = <<>> THEN <<>> ELSE <<".">> \o fr)

\* x.toFormat(dp): rounded to dp places with ROUNDING_MODE, fraction padded to dp
toFormatDp(x, dp) ==
    IF ~isFinite(x) THEN NonFiniteChars(x)
    ELSE LET r  == round(x, dp, ROUNDING_MODE)
             fr == FractionDigits(r)
         IN  SignChars(r) \o Grouped(IntegerDigits(r))
             \o (IF dp = 0 THEN <<>> ELSE <<".">> \o fr \o Zeros(dp - Len(fr)))

(* ---------------- the utilities ---------------- *)

\* a convertWeiToTokens that rounds to a fixed 8 places instead of token.decimals
convertWeiToTokens_Fixed8(valueWei, tok) ==
    decimalPlaces(dividedBy(valueWei, TenPow(tok.decimals)), 8)

\* convertWeiToTokens({ valueWei, token })
convertWeiToTokens(valueWei, tok) ==
    decimalPlaces(dividedBy(valueWei, TenPow(tok.decimals)), tok.decimals)

\* a convertTokensToWei that scales the wrong way
convertTokensToWei_Divides(value, tok) ==
    IF ~IsBigNumber(value) THEN [type |-> "TypeError"]
    ELSE decimalPlaces(dividedBy(value, TenPow(tok.decimals)), 0)

\* convertTokensToWei({ value, token }): value.multipliedBy is a method of
\* BigNumber only, a string argument ends in a TypeError
convertTokensToWei(value, tok) ==
    IF ~IsBigNumber(value) THEN [type |-> "TypeError"]
    ELSE decimalPlaces(multipliedBy(value, TenPow(tok.decimals)), 0)

\* a shortenValueWithSuffix that picks the branch by the value rounded to an integer
shortenValueWithSuffix_RoundFirst(value) ==
    LET v == round(value, 0, ROUND_HALF_UP)
    IN  IF isGreaterThanOrEqualTo(v, FromNumber(1000000000))
        THEN toFormat(decimalPlaces(dividedBy(value, FromNumber(1000000000)), 2)) \o <<"B">>
        ELSE IF isGreaterThanOrEqualTo(v, FromNumber(1000000))
        THEN toFormat(decimalPlaces(dividedBy(value, FromNumber(1000000)), 2)) \o <<"M">>
        ELSE IF isGreaterThanOrEqualTo(v, FromNumber(1000))
        THEN toFormat(decimalPlaces(dividedBy(value, FromNumber(1000)), 2)) \o <<"K">>
        ELSE toFormatDp(value, 2)

\* shortenValueWithSuffix({ value })
shortenValueWithSuffix(value) ==
    IF isGreaterThanOrEqualTo(value, FromNumber(1000000000))
    THEN toFormat(decimalPlaces(dividedBy(value, FromNumber(1000000000)), 2)) \o <<"B">>
    ELSE IF isGreaterThanOrEqualTo(value, FromNumber(1000000))
    THEN toFormat(decimalPlaces(dividedBy(value, FromNumber(1000000)), 2)) \o <<"M">>
    ELSE IF isGreaterThanOrEqualTo(value, FromNumber(1000))
    THEN toFormat(decimalPlaces(dividedBy(value, FromNumber(1000)), 2)) \o <<"K">>
    ELSE toFormatDp(value, 2)

\* the literal 0.000001 of the small-value check
SmallValue == BN(1, 1, -6)

\* the addSymbol parameter with its default value true
AddSymbol(arg) == IF arg = "undefined" THEN TRUE ELSE arg = "true"

\* a small-value check with one zero too many in the literal
isSmallValue_Threshold(value) ==
    isLessThan(absoluteValue(value), BN(1, 1, -7)) /\ ~isEqualTo(value, FromNumber(0))

\* a small-value check that forgets the zero case
isSmallValue_NoZeroCheck(value) == isLessThan(absoluteValue(value), SmallValue)

\* the small-value check: value.absoluteValue().isLessThan(0.000001) && !value.isEqualTo(0)
isSmallValue(value) ==
    isLessThan(absoluteValue(value), SmallValue) /\ ~isEqualTo(value, FromNumber(0))

\* const prefix = value.isLessThan(0) ? '-' : ''
prefix(value) == IF isLessThan(value, FromNumber(0)) THEN <<"-">> ELSE <<>>

\* the text "< 0.000001" returned for small values
SmallValueText == <<"<", " ", "0", ".", "0", "0", "0", "0", "0", "1">>

\* a formatTokensToReadableValue whose small-value branch forgets the symbol
formatTokensToReadableValue_NoSymbolOnSmall(value, tok, arg) ==
    LET addSymbol == AddSymbol(arg)
        formattedReadableValue == shortenValueWithSuffix(absoluteValue(value))
        result == prefix(value) \o formattedReadableValue
    IN  IF isSmallValue(value) THEN SmallValueText
        ELSE IF addSymbol THEN result \o <<" ">> \o tok.symbol ELSE result

\* a formatTokensToReadableValue that puts the sign before the small-value text
formatTokensToReadableValue_SignOnSmall(value, tok, arg) ==
    LET addSymbol == AddSymbol(arg)
        formattedReadableValue == shortenValueWithSuffix(absoluteValue(value))
        result == prefix(value) \o formattedReadableValue
    IN  IF isSmallValue(value)
        THEN prefix(value) \o SmallValueText
             \o (IF addSymbol THEN <<" ">> \o tok.symbol ELSE <<>>)
        ELSE IF addSymbol THEN result \o <<" ">> \o tok.symbol ELSE result

\* formatTokensToReadableValue({ value, token, addSymbol = true })
formatTokensToReadableValue(value, tok, arg) ==
    LET addSymbol == AddSymbol(arg)
        formattedReadableValue == shortenValueWithSuffix(absoluteValue(value))
        result == prefix(value) \o formattedReadableValue
    IN  IF isSmallValue(value)
        THEN SmallValueText \o (IF addSymbol THEN <<" ">> \o tok.symbol ELSE <<>>)
        ELSE IF addSymbol THEN result \o <<" ">> \o tok.symbol ELSE result

(* ---------------- the state machine ---------------- *)

ETH == [symbol |-> <<"E", "T", "H">>, decimals |-> 18]

USDC == [symbol |-> <<"U", "S", "D", "C">>, decimals |-> 6]

\* asset descriptors: symbol and decimals, among them 0 decimals and more
\* decimals than DECIMAL_PLACES
Tokens ==
    {ETH, USDC,
     [symbol |-> <<"J">>, decimals |-> 0],
     [symbol |-> <<"C">>, decimals |-> 2],
     [symbol |-> <<"N">>, decimals |-> 24]}

Exponents == (0 - MaxScale)..MaxExp

\* BigNumber arguments: finite amounts of both signs, NaN and the infinities
Values ==
    {BN(s, m, e) : s \in {1, -1}, m \in Mantissas, e \in Exponents}
        \cup {NaN, Infinity(1), Infinity(-1)}

\* what a user may type into the amount field
Texts ==
    {<<"7", "5", ".", "5">>, <<"5", "0">>, <<>>, <<"a", "b", "c">>,
     <<"-", "5">>, <<".", "5">>, <<"5", ".">>, <<"0", ".", "0", "0", "0", "0", "0", "0", "1", "5">>,
     <<"1", ".", "2", ".", "3">>, <<"-">>, <<".">>, <<"N", "a", "N">>,
     <<"I", "n", "f", "i", "n", "i", "t", "y">>}

Inputs == Values \cup {Str(t) : t \in Texts}

AddSymbolArgs == {"undefined", "true", "false"}

None == [type |-> "none"]

\* the arguments of a call, before the call
InitAmount ==
    /\ input \in Inputs
    /\ token \in Tokens
    /\ addSymbolArg \in AddSymbolArgs
    /\ op = "init"
    /\ out = None

\* no call of a utility is looked at
AmountIdle ==
    /\ input = None
    /\ token = ETH
    /\ addSymbolArg = "undefined"
    /\ op = "idle"
    /\ out = None

(* ---------------- the other parts at rest ---------------- *)

Callers == 1..NCallers

\* class Mutex { private locked = false; private queue = [] }, nobody calling
MutexIdle ==
    /\ locked = FALSE
    /\ queue = <<>>
    /\ next = 0
    /\ mpc = [c \in Callers |-> "idle"]

\* no Semaphore is looked at
SemaphoreIdle ==
    /\ size = 0
    /\ permits = 0
    /\ squeue = <<>>
    /\ spc = [c \in Callers |-> "idle"]

\* useState(0), useState(false) and the first render; no invocation yet
PageIdle ==
    /\ sharedCounter = 0
    /\ isUpdating = FALSE
    /\ renderedIsUpdating = FALSE
    /\ inFlight = 0
    /\ passed = 0

\* no caller is looked at
CallsIdle ==
    /\ amount = None
    /\ asset = ETH
    /\ calls = <<>>

\* a caller that is in no withMutex and no acquireWithTimeout call
NoWrapper == [fn |-> "none", pc |-> "idle", settled |-> "none", ret |-> "none", releases |-> 0]

\* nobody uses withMutex or acquireWithTimeout
LockIdle == wcall = [c \in Callers |-> NoWrapper]

\* no throttled or debounced function is looked at
TimerIdle ==
    /\ now = 0
    /\ delay = 0
    /\ timers = {}
    /\ timeoutId = 0
    /\ nextId = 1
    /\ lastCall = 0
    /\ history = <<>>
    /\ invoked = <<>>
    /\ normalLog = <<>>
    /\ throttledLog = <<>>

\* the web-workers page is not looked at
WorkerIdle ==
    /\ mounted = FALSE
    /\ isCalculating = FALSE
    /\ workerResult = None
    /\ workers = <<>>

\* the data-batching page is not looked at
BatchIdle ==
    /\ isSimulating = FALSE
    /\ directData = <<>>
    /\ batchedData = <<>>
    /\ tempData = <<>>
    /\ updates = <<>>
    /\ elapsed = 0
    /\ flushedAt = 0

\* one call of a utility is looked at, everything else at rest
Init == InitAmount /\ CallsIdle /\ MutexIdle /\ SemaphoreIdle /\ PageIdle /\ LockIdle /\ TimerIdle /\ WorkerIdle /\ BatchIdle

(* ---------------- one call of a utility ---------------- *)

\* convertWeiToTokens({ valueWei: input, token })
ConvertWeiToTokens ==
    /\ op = "init"
    /\ IsBigNumber(input)
    /\ out' = convertWeiToTokens(input, token)
    /\ op' = "convertWeiToTokens"
    /\ UNCHANGED <<input, token, addSymbolArg>>
    /\ UNCHANGED <<callVars, mutexVars, semVars, pageVars, lockVars, timerVars, workerVars, batchVars>>

\* convertTokensToWei({ value: input, token }), input passed as it is
ConvertTokensToWei ==
    /\ op = "init"
    /\ out' = convertTokensToWei(input, token)
    /\ op' = "convertTokensToWei"
    /\ UNCHANGED <<input, token, addSymbolArg>>
    /\ UNCHANGED <<callVars, mutexVars, semVars, pageVars, lockVars, timerVars, workerVars, batchVars>>

\* the usage of the chapter: convertTokensToWei({ value: new BigNumber(userInputAmount), token })
ConvertUserInput ==
    /\ op = "init"
    /\ input.type = "string"
    /\ out' = convertTokensToWei(BigNumberFromString(input.chars), token)
    /\ op' = "convertUserInput"
    /\ UNCHANGED <<input, token, addSymbolArg>>
    /\ UNCHANGED <<callVars, mutexVars, semVars, pageVars, lockVars, timerVars, workerVars, batchVars>>

\* convertTokensToWei applied to the result of convertWeiToTokens, same token
ConvertBackToWei ==
    /\ op = "convertWeiToTokens"
    /\ out' = convertTokensToWei(out, token)
    /\ op' = "convertBackToWei"
    /\ UNCHANGED <<input, token, addSymbolArg>>
    /\ UNCHANGED <<callVars, mutexVars, semVars, pageVars, lockVars, timerVars, workerVars, batchVars>>

\* convertWeiToTokens applied to the result of convertTokensToWei, same token
ConvertBackToTokens ==
    /\ op = "convertTokensToWei"
    /\ IsBigNumber(out)
    /\ out' = convertWeiToTokens(out, token)
    /\ op' = "convertBackToTokens"
    /\ UNCHANGED <<input, token, addSymbolArg>>
    /\ UNCHANGED <<callVars, mutexVars, semVars, pageVars, lockVars, timerVars, workerVars, batchVars>>

\* shortenValueWithSuffix({ value: input })
ShortenValueWithSuffix ==
    /\ op = "init"
    /\ IsBigNumber(input)
    /\ out' = Str(shortenValueWithSuffix(input))
    /\ op' = "shortenValueWithSuffix"
    /\ UNCHANGED <<input, token, addSymbolArg>>
    /\ UNCHANGED <<callVars, mutexVars, semVars, pageVars, lockVars, timerVars, workerVars, batchVars>>

\* formatTokensToReadableValue({ value: input, token, addSymbol })
FormatTokensToReadableValue ==
    /\ op = "init"
    /\ IsBigNumber(input)
    /\ out' = Str(formatTokensToReadableValue(input, token, addSymbolArg))
    /\ op' = "formatTokensToReadableValue"
    /\ UNCHANGED <<input, token, addSymbolArg>>
    /\ UNCHANGED <<callVars, mutexVars, semVars, pageVars, lockVars, timerVars, workerVars, batchVars>>

Next ==
    \/ ConvertWeiToTokens
    \/ ConvertTokensToWei
    \/ ConvertUserInput
    \/ ConvertBackToWei
    \/ ConvertBackToTokens
    \/ ShortenValueWithSuffix
    \/ FormatTokensToReadableValue

Spec == Init /\ [][Next]_vars

TypeOK ==
    /\ input \in Inputs
    /\ token \in Tokens
    /\ addSymbolArg \in AddSymbolArgs
    /\ out.type \in {"none", "BigNumber", "string", "TypeError"}

(* ---------------- Mutex ---------------- *)

\* Mutex.acquire() called by c: the lock is taken and the promise resolved,
\* or the resolve function of a new promise is queued
acquire(c) ==
    /\ mpc[c] = "idle"
    /\ IF ~locked
       THEN /\ locked' = TRUE
            /\ mpc' = [mpc EXCEPT ![c] = "resolved"]
            /\ UNCHANGED queue
       ELSE /\ queue' = Append(queue, c)
            /\ mpc' = [mpc EXCEPT ![c] = "queued"]
            /\ UNCHANGED locked
    /\ UNCHANGED next

\* c calls mutex.acquire() itself
Acquire(c) ==
    /\ acquire(c)
    /\ UNCHANGED <<amountVars, callVars, semVars, pageVars, lockVars, timerVars, workerVars, batchVars>>

\* the code after "await mutex.acquire()" of c starts to run
afterAwait(c) ==
    /\ mpc[c] = "resolved"
    /\ mpc' = [mpc EXCEPT ![c] = "holding"]
    /\ UNCHANGED <<locked, queue, next>>

\* c, which called mutex.acquire() itself, goes on
Enter(c) ==
    /\ afterAwait(c)
    /\ UNCHANGED <<amountVars, callVars, semVars, pageVars, lockVars, timerVars, workerVars, batchVars>>

\* a release that unlocks also when it hands the lock to a waiter
Release_AlwaysUnlocks(c) ==
    /\ mpc[c] = "holding"
    /\ locked' = FALSE
    /\ IF Len(queue) > 0
       THEN /\ queue' = Tail(queue)
            /\ next' = Head(queue)
            /\ mpc' = [mpc EXCEPT ![c] = "idle", ![Head(queue)] = "resolved"]
       ELSE /\ mpc' = [mpc EXCEPT ![c] = "idle"]
            /\ next' = 0
            /\ UNCHANGED queue

\* a release that resolves the acquire queued last
release_Newest(c) ==
    /\ mpc[c] = "holding"
    /\ IF Len(queue) > 0
       THEN /\ queue' = SubSeq(queue, 1, Len(queue) - 1)
            /\ next' = queue[Len(queue)]
            /\ mpc' = [mpc EXCEPT ![c] = "idle", ![queue[Len(queue)]] = "resolved"]
            /\ UNCHANGED locked
       ELSE /\ locked' = FALSE
            /\ next' = 0
            /\ mpc' = [mpc EXCEPT ![c] = "idle"]
            /\ UNCHANGED queue

\* Mutex.release() called by the holder c: the first queued resolve function
\* is taken and called, or the lock is opened
release(c) ==
    /\ mpc[c] = "holding"
    /\ IF Len(queue) > 0
       THEN /\ queue' = Tail(queue)
            /\ next' = Head(queue)
            /\ mpc' = [mpc EXCEPT ![c] = "idle", ![Head(queue)] = "resolved"]
            /\ UNCHANGED locked
       ELSE /\ locked' = FALSE
            /\ next' = 0
            /\ mpc' = [mpc EXCEPT ![c] = "idle"]
            /\ UNCHANGED queue

\* the holder c, which called mutex.acquire() itself, calls mutex.release()
Release(c) ==
    /\ release(c)
    /\ UNCHANGED <<amountVars, callVars, semVars, pageVars, lockVars, timerVars, workerVars, batchVars>>

NextMutex == \E c \in Callers : Acquire(c) \/ Enter(c) \/ Release(c)

InitMutex == AmountIdle /\ CallsIdle /\ MutexIdle /\ SemaphoreIdle /\ PageIdle /\ LockIdle /\ TimerIdle /\ WorkerIdle /\ BatchIdle

SpecMutex == InitMutex /\ [][NextMutex]_vars

\* every holder releases in the end and every resolved acquire is continued;
\* nobody has to call acquire
SpecMutexFair ==
    SpecMutex /\ \A c \in Callers : WF_vars(Enter(c)) /\ WF_vars(Release(c))

(* ---------------- withMutex ---------------- *)

(***************************************************************************)
(* withMutex(mutex, fn): await mutex.acquire(); try { return await fn() }  *)
(* finally { mutex.release() }.  fn is any function that returns a         *)
(* promise; the promise is fulfilled or rejected some time after the call. *)
(* wcall[c] follows the call of caller c: what fn's promise settled with,  *)
(* what withMutex gave back and how often it called release.               *)
(***************************************************************************)

\* c calls withMutex(mutex, fn): await mutex.acquire()
WithMutexCall(c) ==
    /\ wcall[c].pc = "idle"
    /\ acquire(c)
    /\ wcall' = [wcall EXCEPT ![c] = [NoWrapper EXCEPT !.fn = "withMutex",
                                                        !.pc = "acquiring"]]
    /\ UNCHANGED <<amountVars, callVars, semVars, pageVars, timerVars, workerVars, batchVars>>

\* the acquire of c is resolved: try { return await fn() ... : fn is called
WithMutexRun(c) ==
    /\ wcall[c].fn = "withMutex" /\ wcall[c].pc = "acquiring"
    /\ afterAwait(c)
    /\ wcall' = [wcall EXCEPT ![c].pc = "running"]
    /\ UNCHANGED <<amountVars, callVars, semVars, pageVars, timerVars, workerVars, batchVars>>

\* the promise of fn is fulfilled ("value") or rejected ("error")
FnSettles(c, how) ==
    /\ wcall[c].fn = "withMutex" /\ wcall[c].pc = "running"
    /\ wcall' = [wcall EXCEPT ![c].pc = "settled", ![c].settled = how]
    /\ UNCHANGED mutexVars
    /\ UNCHANGED <<amountVars, callVars, semVars, pageVars, timerVars, workerVars, batchVars>>

\* a withMutex without finally: release is called only after a fulfilled fn
WithMutexFinally_OnSuccessOnly(c) ==
    /\ wcall[c].fn = "withMutex" /\ wcall[c].pc = "settled"
    /\ IF wcall[c].settled = "value"
       THEN /\ release(c)
            /\ wcall' = [wcall EXCEPT ![c].pc = "done",
                                      ![c].ret = wcall[c].settled,
                                      ![c].releases = @ + 1]
       ELSE /\ wcall' = [wcall EXCEPT ![c].pc = "done", ![c].ret = wcall[c].settled]
            /\ UNCHANGED mutexVars
    /\ UNCHANGED <<amountVars, callVars, semVars, pageVars, timerVars, workerVars, batchVars>>

\* finally { mutex.release() }, then the value is returned or the error rethrown
WithMutexFinally(c) ==
    /\ wcall[c].fn = "withMutex" /\ wcall[c].pc = "settled"
    /\ release(c)
    /\ wcall' = [wcall EXCEPT ![c].pc = "done",
                              ![c].ret = wcall[c].settled,
                              ![c].releases = @ + 1]
    /\ UNCHANGED <<amountVars, callVars, semVars, pageVars, timerVars, workerVars, batchVars>>

\* the caller has taken the result of its call and may call again
WithMutexTaken(c) ==
    /\ wcall[c].fn = "withMutex" /\ wcall[c].pc = "done"
    /\ wcall' = [wcall EXCEPT ![c] = NoWrapper]
    /\ UNCHANGED mutexVars
    /\ UNCHANGED <<amountVars, callVars, semVars, pageVars, timerVars, workerVars, batchVars>>

NextWithMutex ==
    \E c \in Callers :
        \/ WithMutexCall(c)
        \/ WithMutexRun(c)
        \/ \E how \in {"value", "error"} : FnSettles(c, how)
        \/ WithMutexFinally(c)
        \/ WithMutexTaken(c)

InitWithMutex == AmountIdle /\ CallsIdle /\ MutexIdle /\ SemaphoreIdle /\ PageIdle /\ LockIdle /\ TimerIdle /\ WorkerIdle /\ BatchIdle

SpecWithMutex == InitWithMutex /\ [][NextWithMutex]_vars

(* ---------------- acquireWithTimeout ---------------- *)

(***************************************************************************)
(* acquireWithTimeout(mutex, timeout): Promise.race of                     *)
(* mutex.acquire().then(() => true) and a promise that a timer resolves    *)
(* with false.  An acquire that is resolved wins the race: its then        *)
(* callback runs as a microtask, before any timer callback.  The timer can *)
(* win only while the acquire is queued.                                   *)
(***************************************************************************)

\* c calls acquireWithTimeout(mutex, timeout): the timer is started and
\* mutex.acquire() is called
TimeoutCall(c) ==
    /\ wcall[c].pc = "idle"
    /\ acquire(c)
    /\ wcall' = [wcall EXCEPT ![c] = [NoWrapper EXCEPT !.fn = "acquireWithTimeout",
                                                        !.pc = "racing"]]
    /\ UNCHANGED <<amountVars, callVars, semVars, pageVars, timerVars, workerVars, batchVars>>

\* the acquire of c is resolved first: the race gives true, c holds the lock
AcquireWins(c) ==
    /\ wcall[c].fn = "acquireWithTimeout" /\ wcall[c].pc = "racing"
    /\ afterAwait(c)
    /\ wcall' = [wcall EXCEPT ![c].pc = "acquired", ![c].ret = "true"]
    /\ UNCHANGED <<amountVars, callVars, semVars, pageVars, timerVars, workerVars, batchVars>>

\* the timer fires while the acquire of c is queued: the race gives false;
\* nothing is done to the mutex
TimeoutWins(c) ==
    /\ wcall[c].fn = "acquireWithTimeout" /\ wcall[c].pc = "racing"
    /\ mpc[c] = "queued"
    /\ wcall' = [wcall EXCEPT ![c].pc = "timedOut", ![c].ret = "false"]
    /\ UNCHANGED mutexVars
    /\ UNCHANGED <<amountVars, callVars, semVars, pageVars, timerVars, workerVars, batchVars>>

\* a caller that got true calls mutex.release() when it is done
HolderReleases(c) ==
    /\ wcall[c].fn = "acquireWithTimeout" /\ wcall[c].pc = "acquired"
    /\ release(c)
    /\ wcall' = [wcall EXCEPT ![c] = NoWrapper]
    /\ UNCHANGED <<amountVars, callVars, semVars, pageVars, timerVars, workerVars, batchVars>>

\* the queued acquire of a caller that timed out is resolved by a release:
\* its then callback runs, the race is over and nobody looks at the result
LateResolve(c) ==
    /\ wcall[c].fn = "acquireWithTimeout" /\ wcall[c].pc = "timedOut"
    /\ afterAwait(c)
    /\ UNCHANGED wcall
    /\ UNCHANGED <<amountVars, callVars, semVars, pageVars, timerVars, workerVars, batchVars>>

NextTimeout ==
    \E c \in Callers :
        \/ TimeoutCall(c)
        \/ AcquireWins(c)
        \/ TimeoutWins(c)
        \/ HolderReleases(c)
        \/ LateResolve(c)

InitTimeout == AmountIdle /\ CallsIdle /\ MutexIdle /\ SemaphoreIdle /\ PageIdle /\ LockIdle /\ TimerIdle /\ WorkerIdle /\ BatchIdle

SpecTimeout == InitTimeout /\ [][NextTimeout]_vars

(* ---------------- Semaphore ---------------- *)

\* new Semaphore(permits)
NewSemaphore ==
    /\ size \in 0..MaxPermits
    /\ permits = size
    /\ squeue = <<>>
    /\ spc = [c \in Callers |-> "idle"]

\* Semaphore.acquire() called by c
SemAcquire(c) ==
    /\ spc[c] = "idle"
    /\ IF permits > 0
       THEN /\ permits' = permits - 1
            /\ spc' = [spc EXCEPT ![c] = "resolved"]
            /\ UNCHANGED squeue
       ELSE /\ squeue' = Append(squeue, c)
            /\ spc' = [spc EXCEPT ![c] = "queued"]
            /\ UNCHANGED permits
    /\ UNCHANGED size
    /\ UNCHANGED <<amountVars, callVars, mutexVars, pageVars, lockVars, timerVars, workerVars, batchVars>>

\* the code after "await semaphore.acquire()" of c starts to run
SemEnter(c) ==
    /\ spc[c] = "resolved"
    /\ spc' = [spc EXCEPT ![c] = "holding"]
    /\ UNCHANGED <<size, permits, squeue>>
    /\ UNCHANGED <<amountVars, callVars, mutexVars, pageVars, lockVars, timerVars, workerVars, batchVars>>

\* a release that gives the permit back also when it hands it to a waiter
SemRelease_AlwaysIncrements(c) ==
    /\ spc[c] = "holding"
    /\ permits' = permits + 1
    /\ IF Len(squeue) > 0
       THEN /\ squeue' = Tail(squeue)
            /\ spc' = [spc EXCEPT ![c] = "idle", ![Head(squeue)] = "resolved"]
       ELSE /\ spc' = [spc EXCEPT ![c] = "idle"]
            /\ UNCHANGED squeue
    /\ UNCHANGED size
    /\ UNCHANGED <<amountVars, callVars, mutexVars, pageVars, lockVars, timerVars, workerVars, batchVars>>

\* Semaphore.release() called by a holder c
SemRelease(c) ==
    /\ spc[c] = "holding"
    /\ IF Len(squeue) > 0
       THEN /\ squeue' = Tail(squeue)
            /\ spc' = [spc EXCEPT ![c] = "idle", ![Head(squeue)] = "resolved"]
            /\ UNCHANGED permits
       ELSE /\ permits' = permits + 1
            /\ spc' = [spc EXCEPT ![c] = "idle"]
            /\ UNCHANGED squeue
    /\ UNCHANGED size
    /\ UNCHANGED <<amountVars, callVars, mutexVars, pageVars, lockVars, timerVars, workerVars, batchVars>>

NextSemaphore == \E c \in Callers : SemAcquire(c) \/ SemEnter(c) \/ SemRelease(c)

InitSemaphore == AmountIdle /\ CallsIdle /\ MutexIdle /\ NewSemaphore /\ PageIdle /\ LockIdle /\ TimerIdle /\ WorkerIdle /\ BatchIdle

SpecSemaphore == InitSemaphore /\ [][NextSemaphore]_vars

(* ---------------- MutexPatternsPage ---------------- *)

\* a click on one of the two buttons of the last render (not disabled there):
\* incrementSharedCounter of that render reads its isUpdating, calls
\* setIsUpdating(true) and waits for the timer
Click ==
    /\ passed < MaxClicks
    /\ ~renderedIsUpdating
    /\ isUpdating' = TRUE
    /\ inFlight' = inFlight + 1
    /\ passed' = passed + 1
    /\ UNCHANGED <<sharedCounter, renderedIsUpdating>>
    /\ UNCHANGED <<amountVars, callVars, mutexVars, semVars, lockVars, timerVars, workerVars, batchVars>>

\* the timer of an invocation ends: setSharedCounter(prev => prev + 1), then
\* setIsUpdating(false) in the finally block
TimerDone ==
    /\ inFlight > 0
    /\ sharedCounter' = sharedCounter + 1
    /\ isUpdating' = FALSE
    /\ inFlight' = inFlight - 1
    /\ UNCHANGED <<renderedIsUpdating, passed>>
    /\ UNCHANGED <<amountVars, callVars, mutexVars, semVars, lockVars, timerVars, workerVars, batchVars>>

\* React renders the component again: the buttons and the new
\* incrementSharedCounter see the current isUpdating
Render ==
    /\ renderedIsUpdating # isUpdating
    /\ renderedIsUpdating' = isUpdating
    /\ UNCHANGED <<sharedCounter, isUpdating, inFlight, passed>>
    /\ UNCHANGED <<amountVars, callVars, mutexVars, semVars, lockVars, timerVars, workerVars, batchVars>>

NextPage == Click \/ TimerDone \/ Render

InitPage == AmountIdle /\ CallsIdle /\ MutexIdle /\ SemaphoreIdle /\ PageIdle /\ LockIdle /\ TimerIdle /\ WorkerIdle /\ BatchIdle

SpecPage == InitPage /\ [][NextPage]_vars

(* ---------------- several callers of the utilities ---------------- *)

(***************************************************************************)
(* Several callers call the utilities on the same amount and the same      *)
(* token object.  formatTokensToReadableValue runs statement by statement, *)
(* and the statements of different callers are interleaved in every order: *)
(* this covers the run-to-completion order of JavaScript and any other     *)
(* schedule.  The locals of a call (formattedReadableValue, prefix,        *)
(* result) live in the frame of that call.                                 *)
(***************************************************************************)

CallSites == 1..NCallSites

\* the amounts the callers share
CallValues == {BN(1, 105, -1), BN(-1, 5, 0), BN(1, 1, -7), BN(1, 15, 5)}

Utilities ==
    {"convertWeiToTokens", "convertTokensToWei", "shortenValueWithSuffix",
     "formatTokensToReadableValue"}

\* a frame shared by all calls (the locals declared at module level)
Frame_Shared(c) == 1

\* where the locals of the call of c live: a frame of its own
Frame(c) == c

\* the text a template literal or a += puts in for a local: the string itself,
\* "undefined" for a local that holds nothing
TemplateText(v) ==
    IF v = None THEN <<"u", "n", "d", "e", "f", "i", "n", "e", "d">> ELSE v.chars

\* a caller between two calls: nothing called, nothing returned yet
NoCall(add) ==
    [fn |-> "none", add |-> add, pc |-> "idle", ret |-> None, last |-> None,
     formattedReadableValue |-> None, prefix |-> None, result |-> None]

InitCalls ==
    /\ amount \in CallValues
    /\ asset \in {ETH, USDC}
    /\ calls \in [CallSites -> {NoCall(add) : add \in {"true", "false"}}]
    /\ AmountIdle /\ MutexIdle /\ SemaphoreIdle /\ PageIdle /\ LockIdle /\ TimerIdle /\ WorkerIdle /\ BatchIdle

\* c calls convertWeiToTokens, convertTokensToWei or shortenValueWithSuffix:
\* one return statement
CallUtility(c, fn) ==
    /\ calls[c].pc = "idle"
    /\ fn # "formatTokensToReadableValue"
    /\ calls' = [calls EXCEPT
                   ![c].fn = fn,
                   ![c].pc = "done",
                   ![c].ret = CASE fn = "convertWeiToTokens" -> convertWeiToTokens(amount, asset)
                                [] fn = "convertTokensToWei" -> convertTokensToWei(amount, asset)
                                [] OTHER -> Str(shortenValueWithSuffix(amount))]
    /\ UNCHANGED <<amount, asset>>
    /\ UNCHANGED <<amountVars, mutexVars, semVars, pageVars, lockVars, timerVars, workerVars, batchVars>>

\* c calls formatTokensToReadableValue({ value: amount, token: asset, addSymbol })
CallFormat(c) ==
    /\ calls[c].pc = "idle"
    /\ calls' = [calls EXCEPT
                   ![c].fn = "formatTokensToReadableValue",
                   ![c].pc = "called",
                   ![c].ret = None,
                   ![Frame(c)].formattedReadableValue = None,
                   ![Frame(c)].prefix = None,
                   ![Frame(c)].result = None]
    /\ UNCHANGED <<amount, asset>>
    /\ UNCHANGED <<amountVars, mutexVars, semVars, pageVars, lockVars, timerVars, workerVars, batchVars>>

\* const formattedReadableValue = shortenValueWithSuffix({ value: value.absoluteValue() })
FormatShorten(c) ==
    /\ calls[c].pc = "called"
    /\ calls' = [calls EXCEPT
                   ![c].pc = "shortened",
                   ![Frame(c)].formattedReadableValue =
                       Str(shortenValueWithSuffix(absoluteValue(amount)))]
    /\ UNCHANGED <<amount, asset>>
    /\ UNCHANGED <<amountVars, mutexVars, semVars, pageVars, lockVars, timerVars, workerVars, batchVars>>

\* if (small value) return `< 0.000001${addSymbol ? ` ${token.symbol}` : ''}`
FormatSmallCheck(c) ==
    /\ calls[c].pc = "shortened"
    /\ IF isSmallValue(amount)
       THEN calls' = [calls EXCEPT
                        ![c].pc = "done",
                        ![c].ret = Str(SmallValueText \o
                                       (IF AddSymbol(calls[c].add)
                                        THEN <<" ">> \o asset.symbol ELSE <<>>))]
       ELSE calls' = [calls EXCEPT ![c].pc = "checked"]
    /\ UNCHANGED <<amount, asset>>
    /\ UNCHANGED <<amountVars, mutexVars, semVars, pageVars, lockVars, timerVars, workerVars, batchVars>>

\* const prefix = value.isLessThan(0) ? '-' : ''
FormatPrefix(c) ==
    /\ calls[c].pc = "checked"
    /\ calls' = [calls EXCEPT
                   ![c].pc = "prefixed",
                   ![Frame(c)].prefix = Str(prefix(amount))]
    /\ UNCHANGED <<amount, asset>>
    /\ UNCHANGED <<amountVars, mutexVars, semVars, pageVars, lockVars, timerVars, workerVars, batchVars>>

\* let result = `${prefix}${formattedReadableValue}`
FormatJoin(c) ==
    /\ calls[c].pc = "prefixed"
    /\ calls' = [calls EXCEPT
                   ![c].pc = "joined",
                   ![Frame(c)].result =
                       Str(TemplateText(calls[Frame(c)].prefix)
                           \o TemplateText(calls[Frame(c)].formattedReadableValue))]
    /\ UNCHANGED <<amount, asset>>
    /\ UNCHANGED <<amountVars, mutexVars, semVars, pageVars, lockVars, timerVars, workerVars, batchVars>>

\* if (addSymbol) { result += ` ${token.symbol}` }
FormatSymbol(c) ==
    /\ calls[c].pc = "joined"
    /\ calls' = [calls EXCEPT
                   ![c].pc = "symbol",
                   ![Frame(c)].result =
                       IF AddSymbol(calls[c].add)
                       THEN Str(TemplateText(@) \o <<" ">> \o asset.symbol) ELSE @]
    /\ UNCHANGED <<amount, asset>>
    /\ UNCHANGED <<amountVars, mutexVars, semVars, pageVars, lockVars, timerVars, workerVars, batchVars>>

\* return result
FormatReturn(c) ==
    /\ calls[c].pc = "symbol"
    /\ calls' = [calls EXCEPT
                   ![c].pc = "done",
                   ![c].ret = calls[Frame(c)].result]
    /\ UNCHANGED <<amount, asset>>
    /\ UNCHANGED <<amountVars, mutexVars, semVars, pageVars, lockVars, timerVars, workerVars, batchVars>>

\* the caller takes the returned value and remembers the text of its last
\* formatTokensToReadableValue call
TakeResult(c) ==
    /\ calls[c].pc = "done"
    /\ calls' = [calls EXCEPT
                   ![c].pc = "idle",
                   ![c].fn = "none",
                   ![c].ret = None,
                   ![c].last = IF calls[c].fn = "formatTokensToReadableValue"
                               THEN calls[c].ret ELSE @]
    /\ UNCHANGED <<amount, asset>>
    /\ UNCHANGED <<amountVars, mutexVars, semVars, pageVars, lockVars, timerVars, workerVars, batchVars>>

NextCalls ==
    \E c \in CallSites :
        \/ \E fn \in Utilities : CallUtility(c, fn)
        \/ CallFormat(c)
        \/ FormatShorten(c)
        \/ FormatSmallCheck(c)
        \/ FormatPrefix(c)
        \/ FormatJoin(c)
        \/ FormatSymbol(c)
        \/ FormatReturn(c)
        \/ TakeResult(c)

SpecCalls == InitCalls /\ [][NextCalls]_vars

(* ---------------- throttle and debounce ---------------- *)

(***************************************************************************)
(* The clock counts ticks; delay is the delay argument in ticks.  The      *)
(* i-th call of the returned function has the argument i.  A timer is a    *)
(* record of its id (the value setTimeout returned), the time it is due    *)
(* and the argument its callback passes on.  Timer callbacks run when they *)
(* are due: the clock does not go on past a due timer.                     *)
(***************************************************************************)

Delays == 2..MaxDelay

\* time goes on by one tick
Tick ==
    /\ now < MaxTime
    /\ \A t \in timers : t.due > now
    /\ now' = now + 1
    /\ UNCHANGED <<delay, timers, timeoutId, nextId, lastCall, history, invoked,
                   normalLog, throttledLog>>
    /\ UNCHANGED <<amountVars, callVars, mutexVars, semVars, pageVars, lockVars, workerVars, batchVars>>

\* let timeoutId (undefined), no call yet; delay is the argument of debounce
InitDebounce ==
    /\ now = 0
    /\ delay \in Delays
    /\ timers = {}
    /\ timeoutId = 0
    /\ nextId = 1
    /\ lastCall = 0
    /\ history = <<>>
    /\ invoked = <<>>
    /\ normalLog = <<>>
    /\ throttledLog = <<>>
    /\ AmountIdle /\ CallsIdle /\ MutexIdle /\ SemaphoreIdle /\ PageIdle /\ LockIdle /\ WorkerIdle /\ BatchIdle

\* a debounce that forgets clearTimeout
DebouncedCall_NoClear ==
    /\ Len(history) < MaxCalls
    /\ timers' = timers \cup {[id |-> nextId, due |-> now + delay,
                               arg |-> Len(history) + 1]}
    /\ timeoutId' = nextId
    /\ nextId' = nextId + 1
    /\ history' = Append(history, [t |-> now, arg |-> Len(history) + 1])
    /\ UNCHANGED <<now, delay, lastCall, invoked, normalLog, throttledLog>>
    /\ UNCHANGED <<amountVars, callVars, mutexVars, semVars, pageVars, lockVars, workerVars, batchVars>>

\* the function debounce returned is called:
\* clearTimeout(timeoutId); timeoutId = setTimeout(() => func(...args), delay)
DebouncedCall ==
    /\ Len(history) < MaxCalls
    /\ timers' = {t \in timers : t.id # timeoutId}
                     \cup {[id |-> nextId, due |-> now + delay,
                            arg |-> Len(history) + 1]}
    /\ timeoutId' = nextId
    /\ nextId' = nextId + 1
    /\ history' = Append(history, [t |-> now, arg |-> Len(history) + 1])
    /\ UNCHANGED <<now, delay, lastCall, invoked, normalLog, throttledLog>>
    /\ UNCHANGED <<amountVars, callVars, mutexVars, semVars, pageVars, lockVars, workerVars, batchVars>>

\* a timer is due: its callback () => func(...args) runs
TimerFires ==
    \E t \in timers :
        /\ t.due <= now
        /\ timers' = timers \ {t}
        /\ invoked' = Append(invoked, [t |-> now, arg |-> t.arg])
        /\ UNCHANGED <<now, delay, timeoutId, nextId, lastCall, history,
                       normalLog, throttledLog>>
        /\ UNCHANGED <<amountVars, callVars, mutexVars, semVars, pageVars, lockVars, workerVars, batchVars>>

NextDebounce == DebouncedCall \/ TimerFires \/ Tick

SpecDebounce == InitDebounce /\ [][NextDebounce]_vars

\* let lastCall = 0; Date.now() counts from 1970 and is far above any delay:
\* the clock starts at least MaxDelay above 0
InitThrottle ==
    /\ now \in MaxDelay..(MaxDelay + 1)
    /\ delay \in Delays
    /\ timers = {}
    /\ timeoutId = 0
    /\ nextId = 1
    /\ lastCall = 0
    /\ history = <<>>
    /\ invoked = <<>>
    /\ normalLog = <<>>
    /\ throttledLog = <<>>
    /\ AmountIdle /\ CallsIdle /\ MutexIdle /\ SemaphoreIdle /\ PageIdle /\ LockIdle /\ WorkerIdle /\ BatchIdle

\* a throttle that moves lastCall with every call
ThrottledCall_AlwaysMoves ==
    /\ Len(history) < MaxCalls
    /\ history' = Append(history, [t |-> now, arg |-> Len(history) + 1])
    /\ IF now - lastCall >= delay
       THEN invoked' = Append(invoked, [t |-> now, arg |-> Len(history) + 1])
       ELSE UNCHANGED invoked
    /\ lastCall' = now
    /\ UNCHANGED <<now, delay, timers, timeoutId, nextId, normalLog, throttledLog>>
    /\ UNCHANGED <<amountVars, callVars, mutexVars, semVars, pageVars, lockVars, workerVars, batchVars>>

\* the function throttle returned is called: const now = Date.now();
\* if (now - lastCall >= delay) { func(...args); lastCall = now }
ThrottledCall ==
    /\ Len(history) < MaxCalls
    /\ history' = Append(history, [t |-> now, arg |-> Len(history) + 1])
    /\ IF now - lastCall >= delay
       THEN /\ invoked' = Append(invoked, [t |-> now, arg |-> Len(history) + 1])
            /\ lastCall' = now
       ELSE UNCHANGED <<invoked, lastCall>>
    /\ UNCHANGED <<now, delay, timers, timeoutId, nextId, normalLog, throttledLog>>
    /\ UNCHANGED <<amountVars, callVars, mutexVars, semVars, pageVars, lockVars, workerVars, batchVars>>

NextThrottle == ThrottledCall \/ Tick

SpecThrottle == InitThrottle /\ [][NextThrottle]_vars

(* ---------------- ThrottleDebouncePage ---------------- *)

(***************************************************************************)
(* The page calls lodash debounce and throttle in the body of the          *)
(* component, so every render makes a new debounced and a new throttled    *)
(* function, each with its own timer and its own time of the last call.    *)
(* timeoutId and lastCall are the state of the functions of the current    *)
(* render (0: never called); timers of the functions of earlier renders    *)
(* stay pending.  delay is the wait of 500 ms in ticks of the clock.       *)
(* lodash: a debounced function restarts its timer with every call and     *)
(* logs when the timer runs out; a throttled function logs at once when it *)
(* was never called or its last log is delay or more ago.                  *)
(***************************************************************************)

InitInputPage ==
    /\ now = 0
    /\ delay \in Delays
    /\ timers = {}
    /\ timeoutId = 0
    /\ nextId = 1
    /\ lastCall = 0
    /\ history = <<>>
    /\ invoked = <<>>
    /\ normalLog = <<>>
    /\ throttledLog = <<>>
    /\ AmountIdle /\ CallsIdle /\ MutexIdle /\ SemaphoreIdle /\ PageIdle /\ LockIdle /\ WorkerIdle /\ BatchIdle

\* handleInputChange for the i-th change of the input, and the render that
\* setInputValue brings about
InputChange ==
    /\ Len(history) < MaxCalls
    /\ LET value == [t |-> now, arg |-> Len(history) + 1]
       IN  /\ history' = Append(history, value)
           \* handleNormalLog(value)
           /\ normalLog' = Append(normalLog, value)
           \* handleDebouncedLog(value): the timer of this function is restarted
           /\ timers' = {t \in timers : t.id # timeoutId}
                            \cup {[id |-> nextId, due |-> now + delay, arg |-> value.arg]}
           \* handleThrottledLog(value)
           /\ IF lastCall = 0 \/ now - lastCall >= delay
              THEN throttledLog' = Append(throttledLog, value)
              ELSE UNCHANGED throttledLog
    \* the component renders again: debounce(...) and throttle(...) are called
    \* anew and handleInputChange calls the new functions from now on
    /\ timeoutId' = 0
    /\ lastCall' = 0
    /\ nextId' = nextId + 1
    /\ UNCHANGED <<now, delay, invoked>>
    /\ UNCHANGED <<amountVars, callVars, mutexVars, semVars, pageVars, lockVars, workerVars, batchVars>>

NextInputPage == InputChange \/ TimerFires \/ Tick

SpecInputPage == InitInputPage /\ [][NextInputPage]_vars

(* ---------------- WebWorkersPage ---------------- *)

(***************************************************************************)
(* workers is the list of the Worker objects the page has made.  A record  *)
(* tells whether the page has set onmessage on the object, where the       *)
(* worker script is (idle, job: a job message is on its way, computing,    *)
(* answered: the result message is on its way back, done, terminated) and  *)
(* the variables i and result of its loop.                                 *)
(***************************************************************************)

\* new Worker('/heavy-computation.worker.js')
NewWorker(onmessage, state) ==
    [onmessage |-> onmessage, state |-> state, countTo |-> 0, i |-> 0, result |-> 0]

\* the page after its first render and its effect: useState('') and
\* useState(false), and the worker of the effect with its onmessage handler
InitWorkers ==
    /\ mounted = TRUE
    /\ isCalculating = FALSE
    /\ workerResult = None
    /\ workers = <<NewWorker(TRUE, "idle")>>
    /\ AmountIdle /\ CallsIdle /\ MutexIdle /\ SemaphoreIdle /\ PageIdle /\ LockIdle /\ TimerIdle /\ BatchIdle

\* a click on the enabled button: startHeavyComputation sets isCalculating,
\* makes a new Worker and posts the job to it
StartHeavyComputation ==
    /\ mounted /\ ~isCalculating
    /\ Len(workers) < MaxWorkers
    /\ isCalculating' = TRUE
    /\ workers' = Append(workers, [NewWorker(FALSE, "job") EXCEPT !.countTo = MaxCount])
    /\ UNCHANGED <<mounted, workerResult>>
    /\ UNCHANGED <<amountVars, callVars, mutexVars, semVars, pageVars, lockVars, timerVars, batchVars>>

\* self.onmessage of worker w gets the job: const countTo; let result = 0
WorkerStarts(w) ==
    /\ workers[w].state = "job"
    /\ workers' = [workers EXCEPT ![w].state = "computing", ![w].i = 0, ![w].result = 0]
    /\ UNCHANGED <<mounted, isCalculating, workerResult>>
    /\ UNCHANGED <<amountVars, callVars, mutexVars, semVars, pageVars, lockVars, timerVars, batchVars>>

\* one round of for (let i = 0; i < countTo; i++) { result += i }
LoopStep(w) ==
    /\ workers[w].state = "computing"
    /\ workers[w].i < workers[w].countTo
    /\ workers' = [workers EXCEPT ![w].result = @ + workers[w].i, ![w].i = @ + 1]
    /\ UNCHANGED <<mounted, isCalculating, workerResult>>
    /\ UNCHANGED <<amountVars, callVars, mutexVars, semVars, pageVars, lockVars, timerVars, batchVars>>

\* the loop is over: self.postMessage({ result, originalInput: countTo })
PostResult(w) ==
    /\ workers[w].state = "computing"
    /\ workers[w].i >= workers[w].countTo
    /\ workers' = [workers EXCEPT ![w].state = "answered"]
    /\ UNCHANGED <<mounted, isCalculating, workerResult>>
    /\ UNCHANGED <<amountVars, callVars, mutexVars, semVars, pageVars, lockVars, timerVars, batchVars>>

\* the result message arrives at the Worker object w of the page: its
\* onmessage handler runs, if the page has set one on this object
Deliver(w) ==
    /\ workers[w].state = "answered"
    /\ workers' = [workers EXCEPT ![w].state = "done"]
    /\ IF workers[w].onmessage /\ mounted
       THEN /\ workerResult' = [result |-> workers[w].result,
                                originalInput |-> workers[w].countTo]
            /\ isCalculating' = FALSE
       ELSE UNCHANGED <<workerResult, isCalculating>>
    /\ UNCHANGED mounted
    /\ UNCHANGED <<amountVars, callVars, mutexVars, semVars, pageVars, lockVars, timerVars, batchVars>>

\* the page is left: the cleanup of the effect terminates the worker of the
\* effect; the workers startHeavyComputation made go on
Unmount ==
    /\ mounted
    /\ mounted' = FALSE
    /\ isCalculating' = FALSE
    /\ workerResult' = None
    /\ workers' = [w \in 1..Len(workers) |->
                     IF workers[w].onmessage /\ workers[w].state # "terminated"
                     THEN [workers[w] EXCEPT !.state = "terminated"]
                     ELSE workers[w]]
    /\ UNCHANGED <<amountVars, callVars, mutexVars, semVars, pageVars, lockVars, timerVars, batchVars>>

\* the page is shown again: new state, the effect makes its worker
Mount ==
    /\ ~mounted
    /\ Len(workers) < MaxWorkers
    /\ mounted' = TRUE
    /\ isCalculating' = FALSE
    /\ workerResult' = None
    /\ workers' = Append(workers, NewWorker(TRUE, "idle"))
    /\ UNCHANGED <<amountVars, callVars, mutexVars, semVars, pageVars, lockVars, timerVars, batchVars>>

NextWorkers ==
    \/ StartHeavyComputation
    \/ \E w \in 1..Len(workers) : WorkerStarts(w)
    \/ \E w \in 1..Len(workers) : LoopStep(w)
    \/ \E w \in 1..Len(workers) : PostResult(w)
    \/ \E w \in 1..Len(workers) : Deliver(w)
    \/ Unmount
    \/ Mount

SpecWorkers == InitWorkers /\ [][NextWorkers]_vars

\* messages arrive and worker scripts run on; the user need not do anything
SpecWorkersFair ==
    SpecWorkers
        /\ \A w \in 1..MaxWorkers :
              /\ WF_vars(w <= Len(workers) /\ WorkerStarts(w))
              /\ WF_vars(w <= Len(workers) /\ LoopStep(w))
              /\ WF_vars(w <= Len(workers) /\ PostResult(w))
              /\ WF_vars(w <= Len(workers) /\ Deliver(w))

(* ---------------- DataBatchingPage ---------------- *)

(***************************************************************************)
(* One simulation run.  elapsed is the time of the last data tick since    *)
(* the effect started its two intervals, flushedAt the time of the last    *)
(* flush.  The n-th data tick makes the value n (Math.random() gives a new *)
(* value each time).  updates holds the state updates React has queued and *)
(* not rendered yet.  An updater function is run by React when it renders; *)
(* React runs it at once, in setState, only when the component has no      *)
(* update queued.  The updater of the flush reads tempData when it runs.   *)
(***************************************************************************)

\* setInterval(..., 50)
DataInterval == 50

\* setInterval(..., 500)
BatchInterval == 500

\* useState([]), useState([]), useState(false); no effect yet
InitBatch ==
    /\ isSimulating = FALSE
    /\ directData = <<>>
    /\ batchedData = <<>>
    /\ tempData = <<>>
    /\ updates = <<>>
    /\ elapsed = 0
    /\ flushedAt = 0
    /\ AmountIdle /\ CallsIdle /\ MutexIdle /\ SemaphoreIdle /\ PageIdle /\ LockIdle /\ TimerIdle /\ WorkerIdle

\* the values of the queued setDirectData updates, in order
RECURSIVE DirectValues(_)
DirectValues(upds) ==
    IF upds = <<>> THEN <<>>
    ELSE (IF Head(upds).kind = "direct" THEN <<Head(upds).v>> ELSE <<>>)
         \o DirectValues(Tail(upds))

\* what the queued setBatchedData updates append: the result of an updater
\* that was run in setState, or tempData as it is when the render runs it
RECURSIVE BatchedValues(_, _)
BatchedValues(upds, temp) ==
    IF upds = <<>> THEN <<>>
    ELSE (IF Head(upds).kind = "batch"
          THEN (IF Head(upds).eager THEN Head(upds).vals ELSE temp)
          ELSE <<>>)
         \o BatchedValues(Tail(upds), temp)

\* a click on 'Start Simulating Data Stream': the effect runs,
\* let tempData = [] and the two intervals are started
StartSimulating ==
    /\ ~isSimulating /\ elapsed = 0
    /\ isSimulating' = TRUE
    /\ tempData' = <<>>
    /\ UNCHANGED <<directData, batchedData, updates, elapsed, flushedAt>>
    /\ UNCHANGED <<amountVars, callVars, mutexVars, semVars, pageVars, lockVars, timerVars, workerVars>>

\* the 50 ms interval: setDirectData(prev => [...prev, newNumber]);
\* tempData.push(newNumber)
DataTick ==
    /\ isSimulating
    /\ elapsed + DataInterval <= MaxElapsed
    /\ ~(elapsed > 0 /\ elapsed % BatchInterval = 0 /\ flushedAt < elapsed)
    /\ elapsed' = elapsed + DataInterval
    /\ LET newNumber == (elapsed + DataInterval) \div DataInterval
       IN  /\ updates' = Append(updates, [kind |-> "direct", v |-> newNumber,
                                          eager |-> FALSE, vals |-> <<>>])
           /\ tempData' = Append(tempData, newNumber)
    /\ UNCHANGED <<isSimulating, directData, batchedData, flushedAt>>
    /\ UNCHANGED <<amountVars, callVars, mutexVars, semVars, pageVars, lockVars, timerVars, workerVars>>

\* the 500 ms interval, after the data tick of the same time:
\* setBatchedData(prev => [...prev, ...tempData]); tempData = []
FlushTick ==
    /\ isSimulating
    /\ elapsed > 0 /\ elapsed % BatchInterval = 0 /\ flushedAt < elapsed
    /\ flushedAt' = elapsed
    /\ updates' = Append(updates, [kind |-> "batch", v |-> 0,
                                   eager |-> (updates = <<>>), vals |-> tempData])
    /\ tempData' = <<>>
    /\ UNCHANGED <<isSimulating, directData, batchedData, elapsed>>
    /\ UNCHANGED <<amountVars, callVars, mutexVars, semVars, pageVars, lockVars, timerVars, workerVars>>

\* React renders: the queued updates are applied in order
RenderBatch ==
    /\ updates # <<>>
    /\ directData' = directData \o DirectValues(updates)
    /\ batchedData' = batchedData \o BatchedValues(updates, tempData)
    /\ updates' = <<>>
    /\ UNCHANGED <<isSimulating, tempData, elapsed, flushedAt>>
    /\ UNCHANGED <<amountVars, callVars, mutexVars, semVars, pageVars, lockVars, timerVars, workerVars>>

\* a click on 'Stop Simulating': the cleanup clears both intervals
StopSimulating ==
    /\ isSimulating
    /\ isSimulating' = FALSE
    /\ UNCHANGED <<directData, batchedData, tempData, updates, elapsed, flushedAt>>
    /\ UNCHANGED <<amountVars, callVars, mutexVars, semVars, pageVars, lockVars, timerVars, workerVars>>

NextBatch == StartSimulating \/ DataTick \/ FlushTick \/ RenderBatch \/ StopSimulating

SpecBatch == InitBatch /\ [][NextBatch]_vars

(* ---------------- properties of the conversions ---------------- *)

\* the human amount the conversion to wei was given
HumanArg == IF op = "convertUserInput" THEN BigNumberFromString(input.chars) ELSE input

IsInteger(x) == isFinite(x) /\ x.e >= 0

\* C1: round trip: for every non-negative integer raw amount r and decimals d
\* in 0..18, convertTokensToWei(convertWeiToTokens(r, d), d) is exactly r.
C1_RoundTrip ==
    (/\ op = "convertBackToWei"
     /\ IsInteger(input) /\ input.s = 1
     /\ token.decimals \in 0..18)
        => out = input

\* a raw amount above 2^53 (at least 10^16) went there and back with 18 decimals
C1_Witness ==
    /\ op = "convertBackToWei"
    /\ IsInteger(input) /\ input.s = 1 /\ input.m = 9999995 /\ input.e >= 10
    /\ token.decimals = 18
    /\ out = input

\* C2: convertWeiToTokens(r, d) is exactly r / 10^d for every integer r and
\* every d >= 0: at most d fractional digits, and its product with 10^d is r.
C2_RawToHumanExact ==
    (op = "convertWeiToTokens" /\ IsInteger(input))
        => /\ isFinite(out)
           /\ out.e >= 0 - token.decimals
           /\ isEqualTo(multipliedBy(out, TenPow(token.decimals)), input)

\* the integer a finite x with few digits stands for (x.e in 0..8)
IntValue(x) == x.m * Pow10(x.e)

\* 2 * |n * 10^k - m| <= 10^k: n is a nearest integer to m / 10^k
IsNearest(n, m, k) ==
    LET diff == n * Pow10(k) - m
    IN  2 * (IF diff < 0 THEN 0 - diff ELSE diff) <= Pow10(k)

\* C3: for every non-negative human amount h, convertTokensToWei(h, d) is an
\* integer within 1/2 of h * 10^d; digits beyond d places are rounded to the
\* nearest integer, not dropped.
C3_NearestInteger ==
    (/\ op \in {"convertTokensToWei", "convertUserInput"}
     /\ IsBigNumber(HumanArg) /\ isFinite(HumanArg) /\ HumanArg.s = 1)
        => LET h == HumanArg
               p == h.e + token.decimals
           IN  /\ IsBigNumber(out) /\ IsInteger(out)
               /\ IF p >= 0 THEN out = BN(1, h.m, p)
                  ELSE IF 0 - p > 8 THEN isZero(out)
                  ELSE /\ out.e <= 8 - NumDigits(out.m)
                       /\ IsNearest(IntValue(out), h.m, 0 - p)

\* 0.0000015 with 6 decimals is 1.5 raw units and comes out as 2
C3_Witness ==
    /\ op = "convertTokensToWei"
    /\ input = BN(1, 15, -7) /\ token.decimals = 6
    /\ out = BN(1, 2, 0)

\* texts that are no numeric value
UnparseableTexts ==
    {<<>>, <<"a", "b", "c">>, <<"1", ".", "2", ".", "3">>, <<"-">>, <<".">>,
     <<"N", "a", "N">>}

DigitsOf(chars) == SelectSeq(chars, IsDigit)

\* the number of characters after the decimal point
FracLen(chars) ==
    IF \E i \in 1..Len(chars) : chars[i] = "."
    THEN Len(chars) - (CHOOSE i \in 1..Len(chars) : chars[i] = ".")
    ELSE 0

\* texts of Texts that are numbers
NumericTexts ==
    {<<"7", "5", ".", "5">>, <<"5", "0">>, <<"-", "5">>, <<".", "5">>, <<"5", ".">>,
     <<"0", ".", "0", "0", "0", "0", "0", "0", "1", "5">>}

\* C5 as stated: convertTokensToWei takes the human amount as a numeric string
\* too, and gives the raw amount it gives for the same amount as a BigNumber.
C5_StringAccepted ==
    (/\ op = "convertTokensToWei"
     /\ input.type = "string" /\ input.chars \in NumericTexts)
        => out = convertTokensToWei(BigNumberFromString(input.chars), token)

\* C5 amended: convertTokensToWei takes a BigNumber only (a string argument
\* ends in a TypeError); a numeric string is first parsed with new BigNumber,
\* as the usage example does, and then, as for every BigNumber amount with at
\* most d fractional digits, the result is exactly h * 10^d.
C5_BigNumberOnlyExact ==
    /\ (op = "convertTokensToWei" /\ input.type = "string") => out.type = "TypeError"
    /\ (/\ op = "convertUserInput" /\ input.chars \in NumericTexts
        /\ FracLen(input.chars) <= token.decimals)
        => out = BN(IF input.chars[1] = "-" THEN -1 ELSE 1,
                    DigitsToNat(DigitsOf(input.chars)),
                    token.decimals - FracLen(input.chars))
    /\ (/\ op = "convertTokensToWei" /\ IsBigNumber(input) /\ isFinite(input)
        /\ 0 - input.e <= token.decimals)
        => out = BN(input.s, input.m, input.e + token.decimals)

\* "75.5" typed for USDC (6 decimals) came out as 75500000
C5_Witness ==
    /\ op = "convertUserInput"
    /\ input.chars = <<"7", "5", ".", "5">> /\ token = USDC
    /\ out = BN(1, 75500000, 0)

(* ---------------- properties of the formatters ---------------- *)

\* a finite amount that is not below zero
IsNonNegative(x) == isFinite(x) /\ (x.s = 1 \/ x.m = 0)

\* x / 10^k, exactly
Scaled(x, k) == IF x.m = 0 THEN x ELSE [x EXCEPT !.e = @ - k]

\* the number of digits before the decimal point of x >= 1, else at most 0
IntegerLength(x) == IF x.m = 0 THEN 0 ELSE Magnitude(x)

\* C6: shortenValueWithSuffix picks the suffix by magnitude (none below 10^3,
\* K from 10^3, M from 10^6, B from 10^9, a value at a threshold taking the
\* higher suffix) and the numeric part is the value divided by the matching
\* power of ten, rounded to 2 decimal places: 999 gives "999.00" and 1000
\* gives "1.00K".
C6_SuffixByMagnitude ==
    (op = "shortenValueWithSuffix" /\ IsNonNegative(input))
        => LET n == IntegerLength(input)
               k == IF n >= 10 THEN 9 ELSE IF n >= 7 THEN 6 ELSE IF n >= 4 THEN 3 ELSE 0
               suffix == IF n >= 10 THEN <<"B">> ELSE IF n >= 7 THEN <<"M">>
                         ELSE IF n >= 4 THEN <<"K">> ELSE <<>>
           IN  out.chars = toFormatDp(Scaled(input, k), 2) \o suffix

\* the text without its K, M or B
NumericPart(chars) ==
    IF Len(chars) > 0 /\ chars[Len(chars)] \in {"K", "M", "B"}
    THEN SubSeq(chars, 1, Len(chars) - 1)
    ELSE chars

HasTwoFractionDigits(chars) ==
    LET body == NumericPart(chars)
        n    == Len(body)
    IN  /\ n >= 4
        /\ body[n - 2] = "."
        /\ IsDigit(body[n - 1]) /\ IsDigit(body[n])
        /\ \A i \in 1..(n - 3) : body[i] # "."

\* C7: in every branch of shortenValueWithSuffix (no suffix, K, M, B) the
\* numeric part has exactly two fractional digits, trailing zeros included:
\* 1000 gives "1.00K", 1500000 gives "1.50M", 1500000000 gives "1.50B".
C7_TwoFractionDigits ==
    (op = "shortenValueWithSuffix" /\ IsNonNegative(input))
        => HasTwoFractionDigits(out.chars)

\* the symbol part of the output for the addSymbol argument of the call
SymbolPart == IF addSymbolArg = "false" THEN <<>> ELSE <<" ">> \o token.symbol

\* C8: for every h with 0 < |h| < 10^-6, formatTokensToReadableValue returns
\* "< 0.000001", followed by a space and the symbol when addSymbol is true.
C8_SmallValueSentinel ==
    (/\ op = "formatTokensToReadableValue"
     /\ isFinite(input) /\ input.m # 0 /\ Magnitude(input) <= -6)
        => out.chars = <<"<", " ", "0", ".", "0", "0", "0", "0", "0", "1">> \o SymbolPart

\* 0.0000001 ETH with addSymbol came out as "< 0.000001 ETH"
C8_Witness ==
    /\ op = "formatTokensToReadableValue"
    /\ input = BN(1, 1, -7) /\ token = ETH /\ addSymbolArg = "true"
    /\ out.chars = <<"<", " ", "0", ".", "0", "0", "0", "0", "0", "1", " ", "E", "T", "H">>

\* C9: formatTokensToReadableValue of 0 returns "0.00" ("0.00 ETH" with the
\* symbol), never the small-value text, and has no minus sign.
C9_ZeroIsZero ==
    (op = "formatTokensToReadableValue" /\ isZero(input))
        => out.chars = <<"0", ".", "0", "0">> \o SymbolPart

\* 0 ETH with addSymbol came out as "0.00 ETH"
C9_Witness ==
    /\ op = "formatTokensToReadableValue"
    /\ isZero(input) /\ token = ETH /\ addSymbolArg = "true"
    /\ out.chars = <<"0", ".", "0", "0", " ", "E", "T", "H">>

\* C10: for every h with |h| >= 10^-6, the text for -h is "-" followed by the
\* text for h.
C10_NegativePrefix ==
    (/\ op = "formatTokensToReadableValue"
     /\ isFinite(input) /\ input.s = -1 /\ input.m # 0 /\ Magnitude(input) >= -5)
        => out.chars = <<"-">> \o formatTokensToReadableValue(
                                      [input EXCEPT !.s = 1], token, addSymbolArg)

\* -5 USDC without symbol came out as "-5.00"
C10_Witness ==
    /\ op = "formatTokensToReadableValue"
    /\ input = BN(-1, 5, 0) /\ token = USDC /\ addSymbolArg = "false"
    /\ out.chars = <<"-", "5", ".", "0", "0">>

\* chars ends with tail
EndsWith(chars, tail) ==
    /\ Len(chars) >= Len(tail)
    /\ SubSeq(chars, Len(chars) - Len(tail) + 1, Len(chars)) = tail

\* C11: for every amount, the text with addSymbol = true is the text with
\* addSymbol = false followed by one space and the symbol, and with
\* addSymbol = false no symbol is appended.
C11_SymbolAppended ==
    (op = "formatTokensToReadableValue")
        => /\ addSymbolArg = "true"
                => out.chars = formatTokensToReadableValue(input, token, "false")
                                   \o <<" ">> \o token.symbol
           /\ addSymbolArg = "false"
                => /\ ~EndsWith(out.chars, <<" ">> \o token.symbol)
                   /\ out.chars \o <<" ">> \o token.symbol
                          = formatTokensToReadableValue(input, token, "true")

\* 10.5 USDC with addSymbol came out as "10.50 USDC"
C11_Witness ==
    /\ op = "formatTokensToReadableValue"
    /\ input = BN(1, 105, -1) /\ token = USDC /\ addSymbolArg = "true"
    /\ out.chars = <<"1", "0", ".", "5", "0", " ", "U", "S", "D", "C">>

\* a number as the formatters print it: digits, separators and at most one
\* point, between two digits, with an optional K, M or B
IsNumberText(chars) ==
    LET body == NumericPart(chars)
    IN  /\ Len(body) > 0
        /\ IsDigit(body[1]) /\ IsDigit(body[Len(body)])
        /\ \A i \in 1..Len(body) : IsDigit(body[i]) \/ body[i] \in {",", "."}
        /\ Cardinality({i \in 1..Len(body) : body[i] = "."}) <= 1

\* C12: shortenValueWithSuffix and formatTokensToReadableValue raise nothing
\* for a finite non-negative amount (0, the values 10^3, 10^6 and 10^9, very
\* large values, values below 10^-6): the result is a string, the text of a
\* number or the small-value text, with the symbol part where asked for.
C12_AlwaysAString ==
    /\ (op = "shortenValueWithSuffix" /\ IsNonNegative(input))
        => (out.type = "string" /\ IsNumberText(out.chars))
    /\ (op = "formatTokensToReadableValue" /\ IsNonNegative(input))
        => /\ out.type = "string"
           /\ EndsWith(out.chars, SymbolPart)
           /\ LET core == SubSeq(out.chars, 1, Len(out.chars) - Len(SymbolPart))
              IN  core = SmallValueText \/ IsNumberText(core)

\* exactly 10^9 went through shortenValueWithSuffix and a text came out
C12_Witness ==
    /\ op = "shortenValueWithSuffix"
    /\ input = BN(1, 1, 9)
    /\ out.type = "string" /\ out.chars = <<"1", "B">>

\* the part of the number before the decimal point
IntegerPortion(chars) ==
    LET body == NumericPart(chars)
        dots == {i \in 1..Len(body) : body[i] = "."}
    IN  IF dots = {} THEN body
        ELSE SubSeq(body, 1, (CHOOSE i \in dots : TRUE) - 1)

\* the part of the number after the decimal point
FractionPortion(chars) ==
    LET body == NumericPart(chars)
        dots == {i \in 1..Len(body) : body[i] = "."}
    IN  IF dots = {} THEN <<>>
        ELSE SubSeq(body, (CHOOSE i \in dots : TRUE) + 1, Len(body))

SuffixOf(chars) == SubSeq(chars, Len(NumericPart(chars)) + 1, Len(chars))

\* a value with n digits before the point, n a threshold, whose quotient by
\* 10^(n-3) is 999.995 or more and so rounds to 1000 at two decimals
RoundsUpTo1000(x, n) ==
    /\ IsNonNegative(x) /\ IntegerLength(x) = n
    /\ round(Scaled(x, n - 3), 2, ROUND_HALF_UP) = BN(1, 1, 3)

\* C13 as stated: for a value just below a threshold whose scaled value rounds
\* to 1000, the text is one of the two pinned forms: "1000.00K" or "1.00M"
\* for 999999, "1000.00M" or "1.00B" for 999999999.
C13_PinnedForms ==
    /\ (op = "shortenValueWithSuffix" /\ RoundsUpTo1000(input, 6))
        => out.chars \in {<<"1", "0", "0", "0", ".", "0", "0", "K">>,
                          <<"1", ".", "0", "0", "M">>}
    /\ (op = "shortenValueWithSuffix" /\ RoundsUpTo1000(input, 9))
        => out.chars \in {<<"1", "0", "0", "0", ".", "0", "0", "M">>,
                          <<"1", ".", "0", "0", "B">>}

\* C13 amended: such a value keeps the lower suffix at every threshold (none
\* below 10^3, K below 10^6, M below 10^9), the branch being chosen before
\* the rounding, and the integer portion of its numeric part is 1000 written
\* with the thousands separator, "1,000".
C13_StaysBelowThreshold ==
    \A n \in {3, 6, 9} :
        (op = "shortenValueWithSuffix" /\ RoundsUpTo1000(input, n))
            => /\ IntegerPortion(out.chars) = <<"1", ",", "0", "0", "0">>
               /\ SuffixOf(out.chars) = (IF n = 3 THEN <<>>
                                         ELSE IF n = 6 THEN <<"K">> ELSE <<"M">>)

\* 999999 went through shortenValueWithSuffix and stayed in the K branch
C13_Witness ==
    /\ op = "shortenValueWithSuffix"
    /\ input = BN(1, 999999, 0)
    /\ out.chars = <<"1", ",", "0", "0", "0", "K">>

\* C14: the integer portion of the numeric part carries a thousands separator
\* before every group of three digits once it has four or more digits, in
\* every branch, and the fractional digits carry none.
C14_ThousandsSeparators ==
    (op = "shortenValueWithSuffix" /\ IsNonNegative(input))
        => LET ip == IntegerPortion(out.chars)
               fp == FractionPortion(out.chars)
               n  == Len(ip)
           IN  /\ n > 0
               /\ \A i \in 1..n : (ip[i] = ",") <=> ((n - i + 1) % 4 = 0)
               /\ \A i \in 1..n : ip[i] # "," => IsDigit(ip[i])
               /\ \A i \in 1..Len(fp) : IsDigit(fp[i])

\* 1.499 * 10^15 is in the B branch with a seven-digit integer portion
C14_Witness ==
    /\ op = "shortenValueWithSuffix"
    /\ input = BN(1, 1499, 12)
    /\ out.chars = <<"1", ",", "4", "9", "9", ",", "0", "0", "0", "B">>

(* ---------------- properties of Mutex, Semaphore and the demo page ---------------- *)

\* callers whose acquire has resolved and who have not released
Holders(pc) == {c \in Callers : pc[c] \in {"resolved", "holding"}}

\* C18: with release called by the holder only, at most one caller holds the
\* Mutex at any time.
C18_MutualExclusion == Cardinality(Holders(mpc)) <= 1

\* one caller holds the lock while two other callers wait in the queue
C18_Witness ==
    /\ Cardinality(Holders(mpc)) = 1
    /\ Len(queue) >= 2
    /\ locked

\* C19: a Semaphore constructed with n permits has at most n holders, and
\* permits + holders = n with 0 <= permits <= n, in every state.
C19_PermitsAccount ==
    /\ Cardinality(Holders(spc)) <= size
    /\ permits + Cardinality(Holders(spc)) = size
    /\ permits \in 0..size

\* all permits of a Semaphore(2) are out and a caller waits
C19_Witness ==
    /\ size = 2
    /\ Cardinality(Holders(spc)) = 2
    /\ permits = 0
    /\ Len(squeue) >= 1

\* C20: for any sequence of clicks, also clicks that come before the
\* component renders again, at most one invocation of incrementSharedCounter
\* is past the isUpdating guard at a time, and sharedCounter grows by one for
\* each invocation that passed the guard.
C20_OneUpdateAtATime ==
    /\ inFlight <= 1
    /\ sharedCounter + inFlight = passed

(* ---------------- properties of the utilities under several callers ---------------- *)

\* what a call of fn returns when nothing else runs
Alone(fn, add) ==
    CASE fn = "convertWeiToTokens" -> convertWeiToTokens(amount, asset)
      [] fn = "convertTokensToWei" -> convertTokensToWei(amount, asset)
      [] fn = "shortenValueWithSuffix" -> Str(shortenValueWithSuffix(amount))
      [] OTHER -> Str(formatTokensToReadableValue(amount, asset, add))

\* C16: repeated calls of formatTokensToReadableValue with the same amount,
\* token and options return the same text every time, whatever other calls
\* run in between.
C16_StableUnderRepetition ==
    \A c \in CallSites :
        (/\ calls[c].pc = "done"
         /\ calls[c].fn = "formatTokensToReadableValue"
         /\ calls[c].last # None)
            => calls[c].ret = calls[c].last

\* a caller has its second text for 10.5 while another caller is inside a call
C16_Witness ==
    \E c, d \in CallSites :
        /\ c # d
        /\ amount = BN(1, 105, -1)
        /\ calls[c].pc = "done" /\ calls[c].fn = "formatTokensToReadableValue"
        /\ calls[c].last # None /\ calls[c].ret = calls[c].last
        /\ calls[d].pc \in {"shortened", "checked", "prefixed", "joined", "symbol"}

\* C17: under any interleaving of calls from several callers each call returns
\* what it returns when run alone, and no call changes the amount or the token.
C17_CallsIndependent ==
    /\ [](\A c \in CallSites :
            calls[c].pc = "done" => calls[c].ret = Alone(calls[c].fn, calls[c].add))
    /\ [][amount' = amount /\ asset' = asset]_vars

\* two callers with different options have both finished a
\* formatTokensToReadableValue call on the shared amount
C17_Witness ==
    \E c, d \in CallSites :
        /\ calls[c].pc = "done" /\ calls[c].fn = "formatTokensToReadableValue"
        /\ calls[d].pc = "done" /\ calls[d].fn = "formatTokensToReadableValue"
        /\ calls[c].add = "true" /\ calls[d].add = "false"
        /\ calls[c].ret # calls[d].ret

(* ---------------- further properties of the utilities ---------------- *)

\* chars contains the character ch
Contains(chars, ch) == \E i \in 1..Len(chars) : chars[i] = ch

\* C24: for a negative h with 0 < |h| < 10^-6, formatTokensToReadableValue
\* returns "< 0.000001" (and the symbol when asked for) without a minus sign.
C24_NoSignOnSmallNegative ==
    (/\ op = "formatTokensToReadableValue"
     /\ isFinite(input) /\ input.s = -1 /\ input.m # 0
     /\ isLessThan(absoluteValue(input), SmallValue))
        => /\ ~Contains(out.chars, "-")
           /\ SubSeq(out.chars, 1, Len(SmallValueText)) = SmallValueText
           /\ out.chars = SmallValueText \o SymbolPart

\* -0.00000015 USDC without symbol came out as "< 0.000001"
C24_Witness ==
    /\ op = "formatTokensToReadableValue"
    /\ input = BN(-1, 15, -8) /\ token = USDC /\ addSymbolArg = "false"
    /\ out.chars = SmallValueText

\* C25: for every non-negative human amount h and d in 0..18,
\* convertWeiToTokens(convertTokensToWei(h, d), d) is h when h has at most d
\* fractional digits, and else is a multiple of 10^-d within half of 10^-d of h.
C25_ReverseRoundTrip ==
    (/\ op = "convertBackToTokens"
     /\ IsBigNumber(input) /\ IsNonNegative(input)
     /\ token.decimals \in 0..18)
        => LET h == input
               p == h.e + token.decimals
               k == multipliedBy(out, TenPow(token.decimals))
           IN  IF p >= 0 \/ h.m = 0 THEN out = h
               ELSE /\ IsInteger(k)
                    /\ IF 0 - p > 8 THEN isZero(out)
                       ELSE /\ k.e <= 8 - NumDigits(k.m)
                            /\ IsNearest(IntValue(k), h.m, 0 - p)

\* 0.0000015 with 6 decimals went to 2 raw units and came back as 0.000002
C25_Witness ==
    /\ op = "convertBackToTokens"
    /\ input = BN(1, 15, -7) /\ token.decimals = 6 /\ out = BN(1, 2, -6)

(* ---------------- further properties of the Mutex ---------------- *)

\* a step in which the holder calls release()
Releasing == \E c \in Callers : mpc[c] = "holding" /\ mpc'[c] = "idle"

\* C26: release with waiters queued keeps locked true and resolves the acquire
\* that has waited longest (new acquires queue up behind the waiting ones);
\* locked turns false only with an empty queue; and when every holder releases
\* in the end, every queued acquire is resolved in the end.
C26_FifoHandOver ==
    /\ [][/\ (Releasing /\ queue # <<>>)
                => /\ locked /\ locked'
                   /\ mpc'[Head(queue)] = "resolved"
                   /\ queue' = Tail(queue)
          /\ (locked /\ ~locked') => (queue = <<>> /\ queue' = <<>>)
          /\ (~Releasing /\ queue' # queue)
                => \E c \in Callers : queue' = Append(queue, c)]_vars
    /\ \A c \in Callers : (mpc[c] = "queued") ~> (mpc[c] = "resolved")

\* release has handed the lock to the first of three waiters: it is
\* resolved, the lock stayed closed and the two that came later still wait
C26_Witness ==
    /\ next # 0 /\ mpc[next] = "resolved"
    /\ locked
    /\ Len(queue) = 2

\* C27: withMutex calls release exactly once after acquire, after a fulfilled
\* and after a rejected fn, and hands on what fn settled with; when all
\* withMutex calls are over the mutex is unlocked and its queue is empty.
C27_AlwaysReleased ==
    /\ \A c \in Callers :
          /\ wcall[c].pc = "done"
                => /\ wcall[c].releases = 1
                   /\ wcall[c].settled \in {"value", "error"}
                   /\ wcall[c].ret = wcall[c].settled
          /\ wcall[c].pc \in {"acquiring", "running", "settled"}
                => wcall[c].releases = 0
    /\ (\A c \in Callers : wcall[c].pc \in {"idle", "done"})
          => (~locked /\ queue = <<>>)

\* one call has given back a value, another has rethrown an error, each
\* released once, and the mutex is open
C27_Witness ==
    \E c, d \in Callers :
        /\ wcall[c].pc = "done" /\ wcall[c].ret = "value" /\ wcall[c].releases = 1
        /\ wcall[d].pc = "done" /\ wcall[d].ret = "error" /\ wcall[d].releases = 1
        /\ \A e \in Callers : wcall[e].pc \in {"idle", "done"}
        /\ ~locked /\ queue = <<>>

\* the callers whose resolve function is in the queue
Queued == {queue[i] : i \in 1..Len(queue)}

\* C28: a caller whose acquireWithTimeout gave false does not hold the mutex
\* and has no acquire left in the queue of the mutex.
C28_TimedOutCallerLeavesQueue ==
    \A c \in Callers :
        wcall[c].pc = "timedOut"
            => /\ mpc[c] \notin {"resolved", "holding"}
               /\ c \notin Queued

(* ---------------- properties of throttle and debounce ---------------- *)

\* the last element of a sequence that is not empty
Last(seq) == seq[Len(seq)]

\* C21: debounce runs func once after the calls stop: func is called delay
\* after a call that no other call followed in the meantime, with the
\* argument of that call and once for it, never while calls keep coming less
\* than delay apart; at most one timer is pending, the one of the last call.
C21_DebounceOnceAfterBurst ==
    /\ Cardinality(timers) <= 1
    /\ \A t \in timers :
          /\ history # <<>>
          /\ t.arg = Last(history).arg
          /\ t.due = Last(history).t + delay
    /\ \A i \in 1..Len(invoked) :
          /\ \E j \in 1..Len(history) :
                /\ history[j].arg = invoked[i].arg
                /\ invoked[i].t = history[j].t + delay
                /\ j < Len(history) => history[j + 1].t >= invoked[i].t
          /\ \A j \in 1..Len(history) :
                history[j].t <= invoked[i].t - delay \/ history[j].t >= invoked[i].t
          /\ \A k \in 1..Len(invoked) : invoked[k].arg = invoked[i].arg => k = i
    /\ (timers = {} /\ history # <<>>)
          => (invoked # <<>> /\ Last(invoked).arg = Last(history).arg)

\* three calls less than delay apart, and one call of func, delay after the
\* third and with its argument
C21_Witness ==
    /\ Len(history) >= 3
    /\ history[2].t - history[1].t < delay
    /\ history[3].t - history[2].t < delay
    /\ history[3].t > history[1].t
    /\ invoked = <<[t |-> history[3].t + delay, arg |-> 3]>>
    /\ timers = {}

\* a step in which the throttled function is called
ThrottledCallStep == Len(history') = Len(history) + 1

\* C22: throttle runs func at most once per delay: two calls of func are at
\* least delay apart, the first call runs func, and a call less than delay
\* after the last run of func runs nothing and leaves lastCall alone.
C22_ThrottleOncePerDelay ==
    /\ [](/\ \A i, j \in 1..Len(invoked) :
                i < j => invoked[j].t - invoked[i].t >= delay
          /\ history # <<>>
                => (invoked # <<>> /\ invoked[1] = history[1])
          /\ invoked # <<>> => lastCall = Last(invoked).t)
    /\ [][(/\ ThrottledCallStep
           /\ invoked # <<>>
           /\ now - Last(invoked).t < delay)
             => (invoked' = invoked /\ lastCall' = lastCall)]_vars

\* func ran for the first call, a call less than delay later was dropped and
\* a call delay or more later ran func again
C22_Witness ==
    /\ Len(history) >= 3
    /\ Len(invoked) = 2
    /\ invoked[1] = history[1]
    /\ \E j \in 2..Len(history) :
          /\ history[j].t - invoked[1].t < delay
          /\ history[j].t > invoked[1].t
    /\ invoked[2].t - invoked[1].t >= delay

\* C23: on the demo page every change of the input gives one normal log, a
\* debounced log is written only when no change came in the delay before it
\* (one log after the burst, with the last value), and two throttled logs are
\* at least delay apart.
C23_PageLogsOncePerBurst ==
    /\ normalLog = history
    /\ \A i \in 1..Len(invoked) :
          /\ \A j \in 1..Len(history) :
                history[j].t <= invoked[i].t - delay \/ history[j].t >= invoked[i].t
          /\ \E j \in 1..Len(history) :
                /\ history[j].arg = invoked[i].arg
                /\ invoked[i].t = history[j].t + delay
    /\ \A i, j \in 1..Len(throttledLog) :
          i < j => throttledLog[j].t - throttledLog[i].t >= delay

(* ---------------- properties of the web-workers page ---------------- *)

\* C29: after startHeavyComputation has set isCalculating, the result of the
\* worker reaches the onmessage handler of the page in the end: the result
\* is stored and isCalculating is false again (unless the page is left
\* before).
C29_ResultReachesPage ==
    isCalculating ~> (~mounted \/ (~isCalculating /\ workerResult # None))

(* ---------------- properties of the data-batching page ---------------- *)

\* p is a prefix of q
IsPrefix(p, q) == Len(p) <= Len(q) /\ SubSeq(q, 1, Len(p)) = p

\* C30: within one simulation run batchedData is a prefix of directData; a
\* flush moves every value buffered since the last flush once, so that the
\* batched values followed by the buffered ones are the direct values, and
\* the buffer is empty right after a flush.
C30_BatchedFollowsDirect ==
    /\ IsPrefix(batchedData, directData)
    /\ updates = <<>> => batchedData \o tempData = directData
    /\ (elapsed > 0 /\ flushedAt = elapsed) => tempData = <<>>

====
